---- MODULE Spec2Model ----
(***************************************************************************)
(* Model of the fadelang lexical front end (fll/src/tokenizer.rs,          *)
(* fll/src/token.rs, fll/src/source.rs).                                   *)
(*                                                                         *)
(* A character is a one-character string, a source text is a sequence of   *)
(* characters.  One call of Tokenizer::tokenize is modelled as a state     *)
(* machine whose steps are the iterations of the `loop` at                 *)
(* tokenizer.rs:17-80, one action per branch of its if/else chain.         *)
(***************************************************************************)
EXTENDS Integers, Sequences, FiniteSets, TLC

VARIABLES
  source,     \* the string returned by Source::read_to_string (tokenizer.rs:12)
  idx,        \* number of characters already taken from `chars` (tokenizer.rs:15)
  tokens,     \* the local Vec `tokens` (tokenizer.rs:13)
  caret_pos,  \* Tokenizer.caret_pos (tokenizer.rs:7)
  fed,        \* history: number of process_char calls that were given a character
  pc,         \* "loop" | "returned" | "panicked"
  failure,    \* which panic ended the call: "none" | "NotHandled" | "UnwrapNone"
  result,     \* what the caller received: Ok(tokens), or <<>> while nothing was returned
  calls,      \* history: number of tokenize calls started on this Tokenizer
  newlines_before  \* history: `\n` characters of the texts of the earlier calls

vars ==
  <<source, idx, tokens, caret_pos, fed, pc, failure, result, calls, newlines_before>>

-----------------------------------------------------------------------------
(* Bounds of the explored inputs *)

MaxAtoms == 4

\* the runs of several calls on one Tokenizer
MaxCalls == 2
MaxCallLen == 2

-----------------------------------------------------------------------------
(* token.rs: character classes, keyword set, token constructors *)

Lower == {"a", "b", "c", "d", "e", "f", "g", "h", "i", "j", "k", "l", "m",
          "n", "o", "p", "q", "r", "s", "t", "u", "v", "w", "x", "y", "z"}

Upper == {"A", "B", "C", "D", "E", "F", "G", "H", "I", "J", "K", "L", "M",
          "N", "O", "P", "Q", "R", "S", "T", "U", "V", "W", "X", "Y", "Z"}

Digit == {"0", "1", "2", "3", "4", "5", "6", "7", "8", "9"}

\* Option<char>::None, as returned by chars.next() / chars.peek() at end of input
NoChar == ""

Keyword_is_valid_char_WithDigit(character) == character \in Lower \cup Digit

Keyword_is_valid_char(character) == character \in Lower

Identifier_is_valid_char_AnyDigit(character, beginning) ==
  \/ character \in Lower
  \/ character \in Upper
  \/ character = "_"
  \/ character \in Digit

Identifier_is_valid_char(character, beginning) ==
  \/ character \in Lower
  \/ character \in Upper
  \/ character = "_"
  \/ IF beginning THEN FALSE ELSE character \in Digit

IsPrefix(p, s) == Len(p) <= Len(s) /\ SubSeq(s, 1, Len(p)) = p

is_keyword_Prefix(string) ==
  \/ IsPrefix(<<"u", "8">>, string)
  \/ IsPrefix(<<"r", "e", "t", "u", "r", "n">>, string)

is_keyword(string) ==
  \/ string = <<"u", "8">>
  \/ string = <<"r", "e", "t", "u", "r", "n">>

\* the static type of an element of Vec<Box<dyn Token>> behind its Box
DynToken == "dyn Token"

\* TypeId::of::<T>() for a static type T: distinct types have distinct ids
TypeId_of(T) == T

\* impl PartialEq<Rhs> for dyn Token: Self is `dyn Token`, Rhs is the static
\* type of the right operand; the operands themselves are not read
Token_eq(self, rhs, Rhs) == TypeId_of(DynToken) = TypeId_of(Rhs)

\* Every token is a record [kind, text, sub]: kind is the concrete type behind
\* `dyn Token`, text the owned String of Keyword/Identifier, sub the
\* BracketType or OperatorType.
EndOfFile == [kind |-> "EndOfFile", text |-> <<>>, sub |-> ""]
NewLine == [kind |-> "NewLine", text |-> <<>>, sub |-> ""]
Whitespace == [kind |-> "Whitespace", text |-> <<>>, sub |-> ""]
Keyword(string) == [kind |-> "Keyword", text |-> string, sub |-> ""]
Identifier(string) == [kind |-> "Identifier", text |-> string, sub |-> ""]
Parenthesis(bracket_type) == [kind |-> "Parenthesis", text |-> <<>>, sub |-> bracket_type]
Brace(bracket_type) == [kind |-> "Brace", text |-> <<>>, sub |-> bracket_type]
Operator(operator_type) == [kind |-> "Operator", text |-> <<>>, sub |-> operator_type]

-----------------------------------------------------------------------------
(* tokenizer.rs: CaretPos *)

CaretPos_default == [line |-> 1, column |-> 1]

reset_column(cp) == [cp EXCEPT !.column = 1]
increment_line(cp) == [cp EXCEPT !.line = @ + 1]
increment_column(cp) == [cp EXCEPT !.column = @ + 1]
new_line_NoLine(cp) == reset_column(cp)

new_line(cp) == reset_column(increment_line(cp))

process_char_ResetFirst(cp, c) ==
  IF c = NoChar
    THEN cp
    ELSE IF c = "\n"
           THEN increment_column(reset_column(increment_line(cp)))
           ELSE increment_column(cp)

process_char_CountsEnd(cp, c) ==
  IF c = "\n"
    THEN reset_column(increment_line(increment_column(cp)))
    ELSE increment_column(cp)

process_char(cp, c) ==
  IF c = NoChar
    THEN cp
    ELSE IF c = "\n"
           THEN new_line(increment_column(cp))
           ELSE increment_column(cp)

-----------------------------------------------------------------------------
(* tokenizer.rs: the pieces of one iteration of the loop in tokenize.      *)
(* `src` is the text, `i` the number of characters taken from `chars`.     *)

\* chars.peek() when i characters have been taken
peek(src, i) == IF i < Len(src) THEN src[i + 1] ELSE NoChar

\* `while let Some(' ') = chars.peek() { chars.next(); }`: the number of
\* characters taken once the loop ends
RECURSIVE skip_spaces(_, _)
skip_spaces(src, i) ==
  IF peek(src, i) = " " THEN skip_spaces(src, i + 1) ELSE i

space_run_NoSkip(src, i) == i

RECURSIVE skip_blank(_, _)
skip_blank(src, i) ==
  IF peek(src, i) \in {" ", "\n"} THEN skip_blank(src, i + 1) ELSE i

space_run_Blank(src, i) == skip_blank(src, i)

space_run(src, i) == skip_spaces(src, i)

\* `while let Some(peek) = chars.peek() { ... buf.push(chars.next()) ... }`
RECURSIVE scan(_, _, _)
scan(src, i, buf) ==
  IF /\ peek(src, i) # NoChar
     /\ \/ Identifier_is_valid_char(peek(src, i), buf = <<>>)
        \/ Keyword_is_valid_char(peek(src, i))
    THEN scan(src, i + 1, Append(buf, src[i + 1]))
    ELSE [idx |-> i, buf |-> buf]

lexeme_scan_OneChar(src, i) == [idx |-> i + 1, buf |-> <<src[i + 1]>>]

RECURSIVE scan_beginning(_, _, _)
scan_beginning(src, i, buf) ==
  IF /\ peek(src, i) # NoChar
     /\ \/ Identifier_is_valid_char(peek(src, i), TRUE)
        \/ Keyword_is_valid_char(peek(src, i))
    THEN scan_beginning(src, i + 1, Append(buf, src[i + 1]))
    ELSE [idx |-> i, buf |-> buf]

lexeme_scan_AlwaysBeginning(src, i) == scan_beginning(src, i + 1, <<src[i + 1]>>)

\* the scan started by the character src[i + 1]: `buf = String::from(char_cur)`
lexeme_scan(src, i) == scan(src, i + 1, <<src[i + 1]>>)

\* the token pushed by the branches that look at char_cur alone
SymbolToken(c) ==
  IF c = "(" THEN Parenthesis("Opening")
  ELSE IF c = ")" THEN Parenthesis("Closing")
  ELSE IF c = "<" THEN Operator("GenericBlockBegin")
  ELSE IF c = ">" THEN Operator("GenericBlockEnd")
  ELSE IF c = ";" THEN Operator("StatementTerminator")
  ELSE IF c = ":" THEN Operator("TypeSpecifier")
  ELSE IF c = "," THEN Operator("CommaSeparator")
  ELSE IF c = "+" THEN Operator("Addition")
  ELSE IF c = "{" THEN Brace("Opening")
  ELSE Brace("Closing")

\* the branch of the if/else chain taken for the character pulled when i
\* characters have been taken.  `chars.peek().unwrap()` is evaluated only
\* when char_cur is '-', and panics when nothing follows.
Classify(src, i) ==
  IF peek(src, i) = NoChar THEN "EndOfFile"
  ELSE LET char_cur == src[i + 1] IN
    IF char_cur \in {"(", ")", "<", ">", ";", ":", ","} THEN "Symbol"
    ELSE IF char_cur = "-" /\ peek(src, i + 1) = NoChar THEN "UnwrapNone"
    ELSE IF char_cur = "-" /\ peek(src, i + 1) = ">" THEN "ReturnType"
    ELSE IF char_cur \in {"+", "{", "}"} THEN "Symbol"
    ELSE IF char_cur = " " THEN "Whitespace"
    ELSE IF char_cur = "\n" THEN "NewLine"
    ELSE IF \/ Identifier_is_valid_char(char_cur, TRUE)
            \/ Keyword_is_valid_char(char_cur) THEN "Lexeme"
    ELSE "NotHandled"

arrow_end_NoNext(src, i) == i + 1

\* `chars.next().unwrap()` of the `->` branch: both characters are taken
arrow_end(src, i) == i + 2

Consumed_PeekAtTop(src, i) ==
  LET b == Classify(src, i) IN
    IF b = "ReturnType" THEN arrow_end(src, i)
    ELSE IF b = "Whitespace" THEN space_run(src, i + 1)
    ELSE IF b = "Lexeme" THEN lexeme_scan(src, i).idx
    ELSE i

\* the number of characters taken once the iteration that pulls src[i + 1]
\* has pushed its token
Consumed(src, i) ==
  LET b == Classify(src, i) IN
    IF b = "ReturnType" THEN arrow_end(src, i)
    ELSE IF b = "Whitespace" THEN space_run(src, i + 1)
    ELSE IF b = "Lexeme" THEN lexeme_scan(src, i).idx
    ELSE i + 1

lexeme_token(buf) == IF is_keyword(buf) THEN Keyword(buf) ELSE Identifier(buf)

\* the token pushed by the iteration that pulls src[i + 1]
Pushed(src, i) ==
  LET b == Classify(src, i) IN
    IF b = "ReturnType" THEN Operator("ReturnType")
    ELSE IF b = "Whitespace" THEN Whitespace
    ELSE IF b = "NewLine" THEN NewLine
    ELSE IF b = "Lexeme" THEN lexeme_token(lexeme_scan(src, i).buf)
    ELSE SymbolToken(src[i + 1])

-----------------------------------------------------------------------------
(* Source texts *)

\* test/tokenizer/main_fn.fl
MainFnSource == <<"m", "a", "i", "n", "(", ")", ";", "\n">>

\* test/tokenizer/other_fn.fl
OtherFnSource ==
  <<"m", "a", "n", "(", ")", ";", "\n",
    "o", "t", "h", "e", "r", "_", "f", "n", "(", ")", ";", "\n">>

\* test/tokenizer/add.fl
AddSource ==
  <<"a", "d", "d", "(", "a", ":", " ", "u", "8", ",", " ", "b", ":", " ",
    "u", "8", ")", ":", " ", "-", ">", " ", "u", "8", " ", "{", "\n",
    " ", "r", "e", "t", "u", "r", "n", " ", "a", " ", "+", " ", "b", ";", "\n",
    "}", ";", "\n">>

\* test/source/tests/from_file.fl
FromFileSource ==
  <<"m", "a", "i", "n", "(", ")", ":", " ", "-", ">", " ", "u", "8", " ",
    ":", "=", " ", "{", "\n",
    " ", " ", "r", "e", "t", "u", "r", "n", " ", "0", ";", "\n",
    "}", "\n">>

\* a text with keywords, keyword-prefixed identifiers and the characters the
\* files above lack
KeywordSample ==
  <<"r", "e", "t", "u", "r", "n", "s", " ", "u", "8", "x", " ",
    "r", "e", "t", "u", "r", "n", " ", "u", "8", " ", "Z", "_", "9",
    "<", "a", ">">>

Fixtures == {MainFnSource, OtherFnSource, AddSource, FromFileSource, KeywordSample}

\* the pieces the enumerated texts are built from
Atoms ==
  {<<"a">>, <<"u">>, <<"8">>, <<" ">>, <<"\n">>, <<"-">>, <<">">>, <<";">>,
   <<"$">>, <<"r", "e", "t", "u", "r", "n">>}

RECURSIVE Flatten(_)
Flatten(ss) == IF ss = <<>> THEN <<>> ELSE Head(ss) \o Flatten(Tail(ss))

Inputs ==
  {Flatten(ss) : ss \in UNION {[1..n -> Atoms] : n \in 0..MaxAtoms}} \cup Fixtures

-----------------------------------------------------------------------------
(* Tokenizer::tokenize *)

\* Tokenizer::default() followed by the first lines of tokenize
Init ==
  /\ source \in Inputs
  /\ idx = 0
  /\ tokens = <<>>
  /\ caret_pos = CaretPos_default
  /\ fed = 0
  /\ pc = "loop"
  /\ failure = "none"
  /\ result = <<>>
  /\ calls = 1
  /\ newlines_before = 0

\* lines 18-20 for a character, then the branch's push
PushToken(branch) ==
  /\ pc = "loop"
  /\ Classify(source, idx) = branch
  /\ caret_pos' = process_char(caret_pos, source[idx + 1])
  /\ fed' = fed + 1
  /\ tokens' = Append(tokens, Pushed(source, idx))
  /\ idx' = Consumed(source, idx)
  /\ UNCHANGED <<source, pc, failure, result, calls, newlines_before>>

\* lines 18-20 for a character, then a panic
Panic(branch) ==
  /\ pc = "loop"
  /\ Classify(source, idx) = branch
  /\ caret_pos' = process_char(caret_pos, source[idx + 1])
  /\ fed' = fed + 1
  /\ idx' = idx + 1
  /\ pc' = "panicked"
  /\ failure' = branch
  /\ UNCHANGED <<source, tokens, result, calls, newlines_before>>

EndOfInput_NoPush ==
  /\ pc = "loop"
  /\ Classify(source, idx) = "EndOfFile"
  /\ caret_pos' = process_char(caret_pos, NoChar)
  /\ pc' = "returned"
  /\ result' = tokens
  /\ UNCHANGED <<source, idx, tokens, fed, failure, calls, newlines_before>>

\* lines 18-24 and 82: end of input
EndOfInput ==
  /\ pc = "loop"
  /\ Classify(source, idx) = "EndOfFile"
  /\ caret_pos' = process_char(caret_pos, NoChar)
  /\ tokens' = Append(tokens, EndOfFile)
  /\ pc' = "returned"
  /\ result' = Append(tokens, EndOfFile)
  /\ UNCHANGED <<source, idx, fed, failure, calls, newlines_before>>

Symbol == PushToken("Symbol")
ReturnType == PushToken("ReturnType")
WhitespaceRun == PushToken("Whitespace")
NewLineChar == PushToken("NewLine")
Lexeme == PushToken("Lexeme")
UnwrapNone == Panic("UnwrapNone")
NotHandled == Panic("NotHandled")

Next ==
  \/ EndOfInput
  \/ Symbol
  \/ ReturnType
  \/ WhitespaceRun
  \/ NewLineChar
  \/ Lexeme
  \/ UnwrapNone
  \/ NotHandled

Spec == Init /\ [][Next]_vars

TypeOK ==
  /\ idx \in 0..Len(source)
  /\ pc \in {"loop", "returned", "panicked"}
  /\ failure \in {"none", "NotHandled", "UnwrapNone"}
  /\ caret_pos.line >= 1 /\ caret_pos.column >= 1


\* Tokenizer::tokenize as a function of the text: the returned sequence, or
\* <<>> when the call panics (a returned sequence is never empty)
RECURSIVE Lex(_, _)
Lex(src, i) ==
  LET b == Classify(src, i) IN
    IF b = "EndOfFile" THEN [ok |-> TRUE, tokens |-> <<EndOfFile>>]
    ELSE IF b \in {"UnwrapNone", "NotHandled"} THEN [ok |-> FALSE, tokens |-> <<>>]
    ELSE LET rest == Lex(src, Consumed(src, i)) IN
           [ok |-> rest.ok, tokens |-> <<Pushed(src, i)>> \o rest.tokens]

tokenize(src) == IF Lex(src, 0).ok THEN Lex(src, 0).tokens ELSE <<>>

-----------------------------------------------------------------------------
(* Vocabulary of the properties: the lexical grammar, stated on the text   *)
(* alone                                                                   *)

WordChar == Lower \cup Upper \cup Digit \cup {"_"}
StructuralChar == {"(", ")", "{", "}", ";", ":", ",", "+", "<", ">"}
KeywordSet == {<<"u", "8">>, <<"r", "e", "t", "u", "r", "n">>}

CountTokens(toks, P(_)) == Cardinality({k \in 1..Len(toks) : P(toks[k])})

IsWhitespaceToken(t) == t.kind = "Whitespace"
IsReturnTypeToken(t) == t.kind = "Operator" /\ t.sub = "ReturnType"
IsGenericBlockEndToken(t) == t.kind = "Operator" /\ t.sub = "GenericBlockEnd"
IsSubtractionToken(t) == t.kind = "Operator" /\ t.sub = "Subtraction"

\* position i holds a character no rule accepts where a lexeme would start:
\* an unknown character, a `-` without `>` after it, or a digit that does not
\* continue a word
BadAt(src, i) ==
  \/ src[i] \notin WordChar \cup StructuralChar \cup {" ", "\n", "-"}
  \/ src[i] = "-" /\ (i = Len(src) \/ src[i + 1] # ">")
  \/ src[i] \in Digit /\ (i = 1 \/ src[i - 1] \notin WordChar)

Accepted(src) == \A i \in 1..Len(src) : ~BadAt(src, i)

FirstBad(src) ==
  CHOOSE i \in 1..Len(src) : BadAt(src, i) /\ \A j \in 1..(i - 1) : ~BadAt(src, j)

\* position i continues the lexeme of position i - 1
Continues(src, i) ==
  /\ i > 1
  /\ \/ src[i] = " " /\ src[i - 1] = " "
     \/ src[i] = ">" /\ src[i - 1] = "-"
     \/ src[i] \in WordChar /\ src[i - 1] \in WordChar

LexemeStarts(src) == {i \in 1..Len(src) : ~Continues(src, i)}

\* the last position of the maximal run of word characters that starts at i
WordEnd(src, i) ==
  CHOOSE j \in i..Len(src) :
    /\ \A k \in i..j : src[k] \in WordChar
    /\ j = Len(src) \/ src[j + 1] \notin WordChar

\* the token the grammar assigns to the lexeme that starts at i
LexemeTokenAt(src, i) ==
  IF src[i] \in WordChar
    THEN LET text == SubSeq(src, i, WordEnd(src, i)) IN
           IF text \in KeywordSet THEN Keyword(text) ELSE Identifier(text)
  ELSE IF src[i] = " " THEN Whitespace
  ELSE IF src[i] = "\n" THEN NewLine
  ELSE IF src[i] = "-" THEN Operator("ReturnType")
  ELSE SymbolToken(src[i])

NthStart(src, n) ==
  CHOOSE i \in LexemeStarts(src) :
    Cardinality({j \in LexemeStarts(src) : j <= i}) = n

ExpectedTokens(src) ==
  [n \in 1..Cardinality(LexemeStarts(src)) |-> LexemeTokenAt(src, NthStart(src, n))]

\* the text with every run of spaces shortened to one space
RECURSIVE Squeeze(_)
Squeeze(src) ==
  IF Len(src) <= 1 THEN src
  ELSE IF src[1] = " " /\ src[2] = " " THEN Squeeze(Tail(src))
  ELSE <<src[1]>> \o Squeeze(Tail(src))

NumNewlines(src) == Cardinality({i \in 1..Len(src) : src[i] = "\n"})

\* the number of characters after the last newline of a text that has one
LastLineLen(src) ==
  Len(src) - (CHOOSE i \in 1..Len(src) :
                src[i] = "\n" /\ \A j \in (i + 1)..Len(src) : src[j] # "\n")

-----------------------------------------------------------------------------
(* Properties *)

\* C1: whenever tokenize returns, the returned sequence has at least one
\* element, its last element is EndOfFile and no other element is EndOfFile.
EndOfFileLastAndOnly ==
  pc = "returned" =>
    /\ Len(result) >= 1
    /\ result[Len(result)].kind = "EndOfFile"
    /\ \A k \in 1..(Len(result) - 1) : result[k].kind # "EndOfFile"

EndOfFileLastAndOnly_Witness ==
  pc = "returned" /\ Len(result) >= 3 /\ result[Len(result)] = EndOfFile

\* C2 (as claimed): at every loop boundary the number of characters fed to
\* CaretPos::process_char equals the number of characters taken from the
\* character stream.
CaretFedEveryConsumedChar ==
  pc \in {"loop", "returned"} => fed = idx

\* C3 (as claimed): for a text of two newline-terminated lines followed by a
\* third line of m characters, the caret after tokenize is (3, 1 + m).
CaretAfterThreeLines ==
  (pc = "returned" /\ NumNewlines(source) = 2) =>
    /\ caret_pos.line = 3
    /\ caret_pos.column = 1 + LastLineLen(source)

\* C4: tokenize terminates: every iteration takes at least one character or
\* ends the call, the characters taken never exceed the text, and the
\* iterations done (one token each, and the final one) number at most
\* Len(source) + 1.
IterationsBounded ==
  /\ [][pc = "loop" => (idx' > idx \/ pc' # "loop")]_vars
  /\ [](idx <= Len(source))
  /\ [](Len(tokens) <= idx + 1 /\ Len(tokens) <= Len(source) + 1)
  /\ [](pc = "loop" => Len(tokens) <= idx)

IterationsBounded_Witness ==
  /\ pc = "returned"
  /\ Len(source) >= 3
  /\ idx = Len(source)
  /\ Len(tokens) < Len(source)

\* C5 (as claimed): the only failure of tokenize is the unrecognized
\* character abort at the end of the classification chain; a `-` that is not
\* followed by `>` fails through that abort too.
OnlyNotHandledFailure ==
  pc = "panicked" => failure = "NotHandled"

\* C6: all or nothing.  If the text holds an unacceptable character, tokenize
\* aborts at the first one and the caller receives no sequence; every
\* returned sequence covers the whole text and ends in EndOfFile.
AllOrNothing ==
  /\ pc = "panicked" =>
       /\ result = <<>>
       /\ ~Accepted(source)
       /\ idx = FirstBad(source)
  /\ pc = "returned" =>
       /\ Accepted(source)
       /\ idx = Len(source)
       /\ result = tokens
       /\ result[Len(result)] = EndOfFile
  /\ pc = "loop" =>
       /\ result = <<>>
       /\ \A i \in 1..idx : ~BadAt(source, i)

AllOrNothing_Witness ==
  /\ pc = "panicked"
  /\ Len(tokens) >= 2
  /\ result = <<>>
  /\ idx < Len(source)

\* C7: a scanned lexeme is a Keyword token exactly when its text is `u8` or
\* `return`; every other scanned text is an Identifier token.
KeywordByExactMatch ==
  \A k \in 1..Len(tokens) :
    /\ tokens[k].kind = "Keyword" => tokens[k].text \in KeywordSet
    /\ tokens[k].kind = "Identifier" => tokens[k].text \notin KeywordSet
    /\ tokens[k].text # <<>> => tokens[k].kind \in {"Keyword", "Identifier"}

KeywordByExactMatch_Witness ==
  /\ pc = "returned"
  /\ \E k \in 1..Len(tokens) : tokens[k].kind = "Keyword"
  /\ \E k \in 1..Len(tokens) :
       /\ tokens[k].kind = "Identifier"
       /\ \E kw \in KeywordSet : IsPrefix(kw, tokens[k].text)

\* C8: every maximal run of spaces yields exactly one Whitespace token, the
\* output does not depend on the lengths of the runs, and no two Whitespace
\* tokens are adjacent.
WhitespaceCollapsed ==
  pc = "returned" =>
    /\ CountTokens(result, IsWhitespaceToken) =
         Cardinality({i \in 1..Len(source) :
                        source[i] = " " /\ (i = 1 \/ source[i - 1] # " ")})
    /\ \A k \in 1..(Len(result) - 1) :
         ~(IsWhitespaceToken(result[k]) /\ IsWhitespaceToken(result[k + 1]))
    /\ result = tokenize(Squeeze(source))

WhitespaceCollapsed_Witness ==
  /\ pc = "returned"
  /\ \E i \in 1..(Len(source) - 2) :
       source[i] = " " /\ source[i + 1] = " " /\ source[i + 2] = " "
  /\ CountTokens(result, IsWhitespaceToken) = 1

\* C9: each `->` of the text read so far gave exactly one ReturnType
\* operator; no token was pushed for a `-` alone and no GenericBlockEnd for
\* the `>` of a `->`.
ArrowIsOneToken ==
  pc \in {"loop", "returned"} =>
    /\ CountTokens(tokens, IsReturnTypeToken) =
         Cardinality({i \in 1..idx : source[i] = "-"})
    /\ CountTokens(tokens, IsGenericBlockEndToken) =
         Cardinality({i \in 1..idx :
                        source[i] = ">" /\ (i = 1 \/ source[i - 1] # "-")})
    /\ CountTokens(tokens, IsSubtractionToken) = 0
    /\ \A i \in 1..idx : source[i] = "-" => (i < idx /\ source[i + 1] = ">")

ArrowIsOneToken_Witness ==
  /\ pc = "returned"
  /\ CountTokens(tokens, IsReturnTypeToken) >= 1
  /\ CountTokens(tokens, IsGenericBlockEndToken) >= 1

\* C10: for an accepted text the output is one token per lexeme, in source
\* order, followed by one EndOfFile; the text of other_fn.fl yields 11
\* tokens with a NewLine right after each StatementTerminator.
OneTokenPerLexeme ==
  pc = "returned" =>
    /\ result = ExpectedTokens(source) \o <<EndOfFile>>
    /\ source = OtherFnSource =>
         /\ Len(result) = 11
         /\ \A k \in 1..Len(result) :
              result[k] = Operator("StatementTerminator") => result[k + 1] = NewLine
         /\ result[5] = NewLine /\ result[10] = NewLine

OneTokenPerLexeme_Witness ==
  /\ pc = "returned"
  /\ source = OtherFnSource
  /\ Len(result) = 11

IsNewLineToken(t) == t.kind = "NewLine"
IsWordToken(t) == t.kind \in {"Identifier", "Keyword"}
FirstChar == Lower \cup Upper \cup {"_"}

\* C11: every Identifier and Keyword token has a non-empty text whose first
\* character is a letter or `_` and whose other characters are letters,
\* digits or `_`.
WordTextGrammar ==
  \A k \in 1..Len(tokens) :
    IsWordToken(tokens[k]) =>
      /\ tokens[k].text # <<>>
      /\ tokens[k].text[1] \in FirstChar
      /\ \A n \in 2..Len(tokens[k].text) : tokens[k].text[n] \in WordChar

WordTextGrammar_Witness ==
  /\ pc = "returned"
  /\ \E k \in 1..Len(tokens) :
       /\ tokens[k].kind = "Identifier"
       /\ Len(tokens[k].text) >= 2
       /\ tokens[k].text[2] \in Digit

\* C12 (as claimed): two tokens of the sequence compare equal exactly when
\* they are of the same kind.
TokenEqualityByKind ==
  \A j, k \in 1..Len(tokens) :
    Token_eq(tokens[j], tokens[k], DynToken) <=> tokens[j].kind = tokens[k].kind

\* C13: the NewLine tokens pushed so far are as many as the `\n` characters
\* taken so far; at the return, as many as the `\n` of the text.
OneNewLinePerNewline ==
  /\ pc \in {"loop", "returned"} =>
       CountTokens(tokens, IsNewLineToken) =
         Cardinality({i \in 1..idx : source[i] = "\n"})
  /\ pc = "returned" => CountTokens(result, IsNewLineToken) = NumNewlines(source)

OneNewLinePerNewline_Witness ==
  /\ pc = "returned"
  /\ \E i \in 1..(Len(source) - 1) : source[i] = " " /\ source[i + 1] = "\n"
  /\ \E i \in 1..(Len(source) - 1) : source[i] \in WordChar /\ source[i + 1] = "\n"
  /\ CountTokens(result, IsNewLineToken) = 2

\* C14: each character given to process_char either is a `\n`, which raises
\* line by one and sets column to 1, or raises column by one and leaves
\* line; line never decreases and column is always at least 1.
CaretStep ==
  /\ [][(pc = "loop" /\ idx < Len(source)) =>
          IF source[idx + 1] = "\n"
            THEN caret_pos'.line = caret_pos.line + 1 /\ caret_pos'.column = 1
            ELSE /\ caret_pos'.line = caret_pos.line
                 /\ caret_pos'.column = caret_pos.column + 1]_vars
  /\ [][caret_pos'.line >= caret_pos.line]_vars
  /\ [](caret_pos.line >= 1 /\ caret_pos.column >= 1)

CaretStep_Witness ==
  /\ caret_pos.line >= 3
  /\ caret_pos.column >= 2
  /\ fed >= 4

\* C15: the end-of-input call of process_char changes neither line nor
\* column.
EndOfInputKeepsCaret ==
  [][(pc = "loop" /\ idx = Len(source)) => caret_pos' = caret_pos]_vars

EndOfInputKeepsCaret_Witness ==
  /\ pc = "returned"
  /\ fed >= 2
  /\ caret_pos.column >= 2

-----------------------------------------------------------------------------
(* Several tokenize calls on one Tokenizer *)

CallChars == {"a", "\n", "$"}

CallInputs ==
  UNION {[1..n -> CallChars] : n \in 0..MaxCallLen}
    \cup {OtherFnSource, FromFileSource}

InitCalls ==
  /\ source \in CallInputs
  /\ idx = 0
  /\ tokens = <<>>
  /\ caret_pos = CaretPos_default
  /\ fed = 0
  /\ pc = "loop"
  /\ failure = "none"
  /\ result = <<>>
  /\ calls = 1
  /\ newlines_before = 0

Call_FreshCaret ==
  /\ pc = "returned"
  /\ calls < MaxCalls
  /\ source' \in CallInputs
  /\ idx' = 0
  /\ tokens' = <<>>
  /\ fed' = 0
  /\ pc' = "loop"
  /\ result' = <<>>
  /\ calls' = calls + 1
  /\ newlines_before' = newlines_before + NumNewlines(source)
  /\ caret_pos' = CaretPos_default
  /\ UNCHANGED failure

\* the next call of tokenize on the same Tokenizer, after a call that
\* returned: lines 12-15 make new locals, self.caret_pos is not written
Call ==
  /\ pc = "returned"
  /\ calls < MaxCalls
  /\ source' \in CallInputs
  /\ idx' = 0
  /\ tokens' = <<>>
  /\ fed' = 0
  /\ pc' = "loop"
  /\ result' = <<>>
  /\ calls' = calls + 1
  /\ newlines_before' = newlines_before + NumNewlines(source)
  /\ UNCHANGED <<caret_pos, failure>>

NextCalls ==
  \/ Next
  \/ Call

SpecCalls == InitCalls /\ [][NextCalls]_vars

\* C16: tokenize never resets the caret: a further call starts at the
\* position the previous call ended at, and after every successful call the
\* caret line is 1 plus the `\n` characters of all texts tokenized so far.
CaretKeptAcrossCalls ==
  /\ [][calls' # calls => caret_pos' = caret_pos]_vars
  /\ [](pc = "returned" =>
          caret_pos.line = 1 + newlines_before + NumNewlines(source))

CaretKeptAcrossCalls_Witness ==
  /\ calls = 2
  /\ pc = "returned"
  /\ newlines_before >= 1
  /\ NumNewlines(source) >= 1
  /\ caret_pos.line = 1 + newlines_before + NumNewlines(source)

\* C17: the scan is maximal: no two adjacent tokens are both Identifier or
\* Keyword tokens, and the character that follows a scanned lexeme is not a
\* letter, a digit or `_`.
ScanIsMaximal ==
  /\ \A k \in 1..(Len(tokens) - 1) :
       ~(IsWordToken(tokens[k]) /\ IsWordToken(tokens[k + 1]))
  /\ (pc = "loop" /\ tokens # <<>> /\ IsWordToken(tokens[Len(tokens)])) =>
       peek(source, idx) \notin WordChar

ScanIsMaximal_Witness ==
  /\ pc = "returned"
  /\ \E k \in 1..(Len(tokens) - 2) :
       /\ IsWordToken(tokens[k])
       /\ Len(tokens[k].text) >= 2
       /\ IsWordToken(tokens[k + 2])

\* C18: for a fresh Tokenizer the caret line is 1 plus the number of NewLine
\* tokens pushed; at the return, 1 plus the NewLine tokens of the result.
CaretLineCountsNewLineTokens ==
  /\ pc \in {"loop", "returned"} =>
       caret_pos.line = 1 + CountTokens(tokens, IsNewLineToken)
  /\ pc = "returned" =>
       caret_pos.line = 1 + CountTokens(result, IsNewLineToken)

CaretLineCountsNewLineTokens_Witness ==
  /\ pc = "returned"
  /\ calls = 1
  /\ CountTokens(result, IsNewLineToken) >= 2
  /\ Len(result) >= 5
  /\ caret_pos.line >= 3

====
